---- MODULE Spec2Model ----
(***************************************************************************)
(* Model of the time-travel line editor of src/editor3.py: the             *)
(* TimelineEditor object (snapshots, current_index, original), what each   *)
(* call prints and writes, and one action per method of the editor.        *)
(*                                                                         *)
(* A line is a sequence of characters (one-character strings), a file      *)
(* content is a sequence of characters, and indices are 0-based as in the  *)
(* Python source: At(s, i) reads s[i].  The 'time' field of a snapshot     *)
(* (wall-clock text, read by no operation except for display) is not       *)
(* modelled.                                                               *)
(***************************************************************************)
EXTENDS Integers, Sequences, FiniteSets, TLC

VARIABLES
    snapshots,      \* self.snapshots: sequence of [desc, lines]
    current_index,  \* self.current_index (0-based, -1 only during construction)
    original,       \* self.original: the lines read at construction
    output,         \* what the last call printed
    writes,         \* the write_file calls the last call made, in order
    before,         \* history: [snapshots, current_index] when the last call began
    earlier,        \* history: when the last call began right after a call that
                    \* pushed a snapshot, that call's output and the cursor it
                    \* started from; NoCall otherwise
    loaded,         \* history: the lines read_file returned at construction
    heap,           \* the list objects: heap[id] is the value of list id
    stored,         \* stored[i]: the id of the list that is snapshots[i]'lines'
    held            \* the ids of the lists the caller of the editor holds,
                    \* in the order it got them
                    \* (the three are kept only under SpecAlias)

vars == <<snapshots, current_index, original, output, writes, before, earlier,
          loaded, heap, stored, held>>

----------------------------------------------------------------------------
(* Bounds of the model *)

MaxSnaps == 3       \* no call is made that would leave more snapshots than this

MaxWriteLines == 2  \* longest line sequence handed to write_file on its own
MaxLineLen == 2     \* longest line in such a sequence
MaxObjects == 5     \* most list objects followed on the heap
MaxListLen == 3     \* longest list a caller grows by inserting

(* Inputs *)

NL == "\n"
\* a file is [exists, content]; a path that names no file:
NoFile == [exists |-> FALSE, content |-> <<>>]
File(content) == [exists |-> TRUE, content |-> content]

\* new_text typed at the "New text (replace): " and "New text (insert): " prompts
ReplaceTexts == { <<"B">> }
InsertTexts == { <<"Z">> }

\* what is at `path` when the program starts
InitFiles == { NoFile,
               File(<<"a", NL, "b", NL, "c", NL>>),
               File(<<"a", NL, "b">>) }

----------------------------------------------------------------------------
(* Python sequence operations *)

At(s, i) == s[i + 1]

\* s[:n] for 0 <= n
Prefix(s, n) == SubSeq(s, 1, IF n < Len(s) THEN n ELSE Len(s))

\* list.insert(i, x) for 0 <= i <= len
ListInsert(s, i, x) == SubSeq(s, 1, i) \o <<x>> \o SubSeq(s, i + 1, Len(s))

\* list.pop(i) for 0 <= i < len: the list that remains
ListPop(s, i) == SubSeq(s, 1, i) \o SubSeq(s, i + 2, Len(s))

\* s[i] = x for 0 <= i < len
ListSet(s, i, x) == [s EXCEPT ![i + 1] = x]

----------------------------------------------------------------------------
(* File I/O *)

RECURSIVE splitlines_from(_, _, _)
splitlines_from(content, i, cur) ==
    IF i > Len(content)
    THEN IF cur = <<>> THEN <<>> ELSE <<cur>>
    ELSE IF content[i] = NL
         THEN <<cur>> \o splitlines_from(content, i + 1, <<>>)
         ELSE splitlines_from(content, i + 1, Append(cur, content[i]))

\* read_file(path): f.read().splitlines()
read_file(content) == splitlines_from(content, 1, <<>>)

RECURSIVE join(_)
join(lines) ==
    IF lines = <<>> THEN <<>>
    ELSE IF Len(lines) = 1 THEN lines[1]
    ELSE lines[1] \o <<NL>> \o join(Tail(lines))

endswith_nl(line) == line # <<>> /\ line[Len(line)] = NL

\* write_file that adds the newline without looking at the last line
write_file_always_newline(lines) ==
    join(lines) \o (IF lines # <<>> THEN <<NL>> ELSE <<>>)

\* write_file(path, lines): the content the file holds afterwards
write_file(lines) ==
    join(lines) \o
    (IF lines # <<>> /\ ~endswith_nl(lines[Len(lines)]) THEN <<NL>> ELSE <<>>)

----------------------------------------------------------------------------
(* TimelineEditor *)

Timeline == [snapshots |-> snapshots, current_index |-> current_index]

current_lines == At(snapshots, current_index).lines

\* the state inside __init__ before its push_snapshot call
Constructing == [snapshots |-> <<>>, current_index |-> -1]

\* push_snapshot that sets the cursor to len(snapshots) instead of len - 1
push_snapshot_cursor_off(tl, lines, desc) ==
    LET snap == [desc |-> desc, lines |-> lines]
        kept == IF tl.current_index < Len(tl.snapshots) - 1
                THEN Prefix(tl.snapshots, tl.current_index + 1)
                ELSE tl.snapshots
        snaps == Append(kept, snap)
    IN  [snapshots |-> snaps, current_index |-> Len(snaps)]

\* push_snapshot that truncates to snapshots[:current_index]
push_snapshot_drop(tl, lines, desc) ==
    LET snap == [desc |-> desc, lines |-> lines]
        kept == IF tl.current_index < Len(tl.snapshots) - 1
                THEN Prefix(tl.snapshots, tl.current_index)
                ELSE tl.snapshots
        snaps == Append(kept, snap)
    IN  [snapshots |-> snaps, current_index |-> Len(snaps) - 1]

\* push_snapshot without the truncation
push_snapshot_keep(tl, lines, desc) ==
    LET snaps == Append(tl.snapshots, [desc |-> desc, lines |-> lines])
    IN  [snapshots |-> snaps, current_index |-> Len(snaps) - 1]

\* push_snapshot applied to a timeline tl = [snapshots, current_index]
push_snapshot(tl, lines, desc) ==
    LET snap == [desc |-> desc, lines |-> lines]
        kept == IF tl.current_index < Len(tl.snapshots) - 1
                THEN Prefix(tl.snapshots, tl.current_index + 1)
                ELSE tl.snapshots
        snaps == Append(kept, snap)
    IN  [snapshots |-> snaps, current_index |-> Len(snaps) - 1]

NoCall == [output |-> [msg |-> ""], current_index |-> -1]

\* the messages of the calls that pushed a snapshot
Pushed == { "Replaced.", "Inserted.", "Deleted.", "Checked out state" }

\* the history variables at the start of a call
History ==
    /\ before' = Timeline
    /\ earlier' = IF output.msg \in Pushed
                  THEN [output |-> output, current_index |-> before.current_index]
                  ELSE NoCall

\* a call of which the list objects are not followed
Remember ==
    /\ History
    /\ UNCHANGED <<heap, stored, held>>

\* the editor constructed on file f
Constructed(f) ==
        LET lines == read_file(f.content)
            tl == push_snapshot(Constructing, lines, [op |-> "Loaded original file"])
        IN  /\ writes = <<>>
            /\ original = lines
            /\ loaded = lines
            /\ snapshots = tl.snapshots
            /\ current_index = tl.current_index
            /\ before = Constructing
            /\ earlier = NoCall
            /\ output = [msg |-> IF ~f.exists
                                 THEN "File not found. Creating new empty file."
                                 ELSE "Simple Time-Travel Editor"]

Init ==
    /\ \E f \in InitFiles : Constructed(f)
    /\ heap = <<>>
    /\ stored = <<>>
    /\ held = <<>>

\* a call that pushes is made only while the result fits the bound
Fits(tl) == Len(tl.snapshots) <= MaxSnaps

Becomes(tl) ==
    /\ Fits(tl)
    /\ snapshots' = tl.snapshots
    /\ current_index' = tl.current_index

\* replace_line that assigns into the stored list before pushing it
replace_line_in_place(lineno, new_text) ==
    LET lines == current_lines IN
    /\ Remember
    /\ UNCHANGED <<original, loaded>>
    /\ writes' = <<>>
    /\ IF 0 <= lineno /\ lineno < Len(lines)
       THEN LET old == At(lines, lineno)
                changed == ListSet(lines, lineno, new_text)
                aliased == [snapshots EXCEPT ![current_index + 1].lines = changed]
            IN
            /\ Becomes(push_snapshot([snapshots |-> aliased,
                                      current_index |-> current_index], changed,
                   [op |-> "Replace line", lineno |-> lineno,
                    old |-> old, new_text |-> new_text]))
            /\ output' = [msg |-> "Replaced."]
       ELSE /\ UNCHANGED <<snapshots, current_index>>
            /\ output' = [msg |-> "Line number out of range."]

\* replace_line whose range test is only lineno < len(lines): a negative
\* lineno counts from the end of the list
replace_line_negative(lineno, new_text) ==
    LET lines == current_lines
        at == IF lineno < 0 THEN lineno + Len(lines) ELSE lineno
    IN
    /\ Remember
    /\ UNCHANGED <<original, loaded>>
    /\ writes' = <<>>
    /\ IF lineno < Len(lines) /\ 0 <= at
       THEN LET old == At(lines, at) IN
            /\ Becomes(push_snapshot(Timeline, ListSet(lines, at, new_text),
                   [op |-> "Replace line", lineno |-> lineno,
                    old |-> old, new_text |-> new_text]))
            /\ output' = [msg |-> "Replaced."]
       ELSE /\ UNCHANGED <<snapshots, current_index>>
            /\ output' = [msg |-> "Line number out of range."]

replace_line(lineno, new_text) ==
    LET lines == current_lines IN
    /\ Remember
    /\ UNCHANGED <<original, loaded>>
    /\ writes' = <<>>
    /\ IF 0 <= lineno /\ lineno < Len(lines)
       THEN LET old == At(lines, lineno) IN
            /\ Becomes(push_snapshot(Timeline, ListSet(lines, lineno, new_text),
                   [op |-> "Replace line", lineno |-> lineno,
                    old |-> old, new_text |-> new_text]))
            /\ output' = [msg |-> "Replaced."]
       ELSE /\ UNCHANGED <<snapshots, current_index>>
            /\ output' = [msg |-> "Line number out of range."]

\* insert_line that inserts after line lineno instead of before it
insert_line_after(lineno, new_text) ==
    LET lines == current_lines
        at == IF lineno < Len(lines) THEN lineno + 1 ELSE lineno
    IN
    /\ Remember
    /\ UNCHANGED <<original, loaded>>
    /\ writes' = <<>>
    /\ IF 0 <= lineno /\ lineno <= Len(lines)
       THEN /\ Becomes(push_snapshot(Timeline, ListInsert(lines, at, new_text),
                   [op |-> "Insert at", lineno |-> lineno, new_text |-> new_text]))
            /\ output' = [msg |-> "Inserted."]
       ELSE /\ UNCHANGED <<snapshots, current_index>>
            /\ output' = [msg |-> "Line number out of range."]

\* insert_line that appends instead of inserting at lineno
insert_line_append(lineno, new_text) ==
    LET lines == current_lines IN
    /\ Remember
    /\ UNCHANGED <<original, loaded>>
    /\ writes' = <<>>
    /\ IF 0 <= lineno /\ lineno <= Len(lines)
       THEN /\ Becomes(push_snapshot(Timeline, Append(lines, new_text),
                   [op |-> "Insert at", lineno |-> lineno, new_text |-> new_text]))
            /\ output' = [msg |-> "Inserted."]
       ELSE /\ UNCHANGED <<snapshots, current_index>>
            /\ output' = [msg |-> "Line number out of range."]

insert_line(lineno, new_text) ==
    LET lines == current_lines IN
    /\ Remember
    /\ UNCHANGED <<original, loaded>>
    /\ writes' = <<>>
    /\ IF 0 <= lineno /\ lineno <= Len(lines)
       THEN /\ Becomes(push_snapshot(Timeline, ListInsert(lines, lineno, new_text),
                   [op |-> "Insert at", lineno |-> lineno, new_text |-> new_text]))
            /\ output' = [msg |-> "Inserted."]
       ELSE /\ UNCHANGED <<snapshots, current_index>>
            /\ output' = [msg |-> "Line number out of range."]

\* delete_line whose range test is only lineno < len(lines): a negative
\* lineno counts from the end of the list
delete_line_negative(lineno) ==
    LET lines == current_lines
        at == IF lineno < 0 THEN lineno + Len(lines) ELSE lineno
    IN
    /\ Remember
    /\ UNCHANGED <<original, loaded>>
    /\ writes' = <<>>
    /\ IF lineno < Len(lines) /\ 0 <= at
       THEN LET old == At(lines, at) IN
            /\ Becomes(push_snapshot(Timeline, ListPop(lines, at),
                   [op |-> "Delete line", lineno |-> lineno, old |-> old]))
            /\ output' = [msg |-> "Deleted."]
       ELSE /\ UNCHANGED <<snapshots, current_index>>
            /\ output' = [msg |-> "Line number out of range."]

\* delete_line that pops from the stored list and pushes nothing
delete_line_in_place(lineno) ==
    LET lines == current_lines IN
    /\ Remember
    /\ UNCHANGED <<original, loaded>>
    /\ writes' = <<>>
    /\ IF 0 <= lineno /\ lineno < Len(lines)
       THEN /\ snapshots' = [snapshots EXCEPT
                                ![current_index + 1].lines = ListPop(lines, lineno)]
            /\ UNCHANGED current_index
            /\ output' = [msg |-> "Deleted."]
       ELSE /\ UNCHANGED <<snapshots, current_index>>
            /\ output' = [msg |-> "Line number out of range."]

\* delete_line that calls lines.pop() without the line number
delete_line_last(lineno) ==
    LET lines == current_lines IN
    /\ Remember
    /\ UNCHANGED <<original, loaded>>
    /\ writes' = <<>>
    /\ IF 0 <= lineno /\ lineno < Len(lines)
       THEN LET old == At(lines, Len(lines) - 1) IN
            /\ Becomes(push_snapshot(Timeline, ListPop(lines, Len(lines) - 1),
                   [op |-> "Delete line", lineno |-> lineno, old |-> old]))
            /\ output' = [msg |-> "Deleted."]
       ELSE /\ UNCHANGED <<snapshots, current_index>>
            /\ output' = [msg |-> "Line number out of range."]

delete_line(lineno) ==
    LET lines == current_lines IN
    /\ Remember
    /\ UNCHANGED <<original, loaded>>
    /\ writes' = <<>>
    /\ IF 0 <= lineno /\ lineno < Len(lines)
       THEN LET old == At(lines, lineno) IN
            /\ Becomes(push_snapshot(Timeline, ListPop(lines, lineno),
                   [op |-> "Delete line", lineno |-> lineno, old |-> old]))
            /\ output' = [msg |-> "Deleted."]
       ELSE /\ UNCHANGED <<snapshots, current_index>>
            /\ output' = [msg |-> "Line number out of range."]

timeline ==
    /\ Remember
    /\ UNCHANGED <<snapshots, current_index, original, loaded>>
    /\ writes' = <<>>
    /\ output' = [msg |-> "--- Timeline ---",
                  rows |-> [i \in 1 .. Len(snapshots) |->
                              [index |-> i - 1,
                               current |-> (i - 1 = current_index)]]]

\* preview_state that also moves the cursor to the previewed snapshot
preview_state_moves(index) ==
    /\ Remember
    /\ UNCHANGED <<snapshots, original, loaded>>
    /\ writes' = <<>>
    /\ IF 0 <= index /\ index < Len(snapshots)
       THEN /\ current_index' = index
            /\ output' = [msg |-> "--- Preview state", index |-> index,
                          lines |-> At(snapshots, index).lines]
       ELSE /\ UNCHANGED current_index
            /\ output' = [msg |-> "Index out of range."]

preview_state(index) ==
    /\ Remember
    /\ UNCHANGED <<snapshots, current_index, original, loaded>>
    /\ writes' = <<>>
    /\ IF 0 <= index /\ index < Len(snapshots)
       THEN output' = [msg |-> "--- Preview state", index |-> index,
                       lines |-> At(snapshots, index).lines]
       ELSE output' = [msg |-> "Index out of range."]

\* checkout that only moves the cursor to index
checkout_bare(index) ==
    /\ Remember
    /\ UNCHANGED <<original, loaded>>
    /\ writes' = <<>>
    /\ IF 0 <= index /\ index < Len(snapshots)
       THEN /\ UNCHANGED snapshots
            /\ current_index' = index
            /\ output' = [msg |-> "Checked out state", index |-> index,
                          head |-> index]
       ELSE /\ UNCHANGED <<snapshots, current_index>>
            /\ output' = [msg |-> "Index out of range."]

\* checkout that pushes the copy without moving the cursor to index first
checkout_no_move(index) ==
    /\ Remember
    /\ UNCHANGED <<original, loaded>>
    /\ writes' = <<>>
    /\ IF 0 <= index /\ index < Len(snapshots)
       THEN LET tl == push_snapshot(Timeline, At(snapshots, index).lines,
                          [op |-> "Checkout state", index |-> index])
            IN  /\ Becomes(tl)
                /\ output' = [msg |-> "Checked out state", index |-> index,
                              head |-> tl.current_index]
       ELSE /\ UNCHANGED <<snapshots, current_index>>
            /\ output' = [msg |-> "Index out of range."]

\* checkout that leaves the cursor on index after the push
checkout_stay(index) ==
    /\ Remember
    /\ UNCHANGED <<original, loaded>>
    /\ writes' = <<>>
    /\ IF 0 <= index /\ index < Len(snapshots)
       THEN LET moved == [snapshots |-> snapshots, current_index |-> index]
                tl == push_snapshot(moved, At(moved.snapshots, moved.current_index).lines,
                          [op |-> "Checkout state", index |-> index])
            IN  /\ Fits(tl)
                /\ snapshots' = tl.snapshots
                /\ current_index' = index
                /\ output' = [msg |-> "Checked out state", index |-> index,
                              head |-> index]
       ELSE /\ UNCHANGED <<snapshots, current_index>>
            /\ output' = [msg |-> "Index out of range."]

checkout(index) ==
    /\ Remember
    /\ UNCHANGED <<original, loaded>>
    /\ writes' = <<>>
    /\ IF 0 <= index /\ index < Len(snapshots)
       THEN LET moved == [snapshots |-> snapshots, current_index |-> index]
                tl == push_snapshot(moved, At(moved.snapshots, moved.current_index).lines,
                          [op |-> "Checkout state", index |-> index])
            IN  /\ Becomes(tl)
                /\ output' = [msg |-> "Checked out state", index |-> index,
                              head |-> tl.current_index]
       ELSE /\ UNCHANGED <<snapshots, current_index>>
            /\ output' = [msg |-> "Index out of range."]

\* save that backs up the current lines instead of self.original
save_backs_up_current ==
    /\ Remember
    /\ UNCHANGED <<snapshots, current_index, original, loaded>>
    /\ \E bak_ok \in BOOLEAN, main_ok \in BOOLEAN :
          /\ writes' = << [path |-> "path.bak", lines |-> current_lines,
                           content |-> write_file(current_lines), ok |-> bak_ok],
                          [path |-> "path", lines |-> current_lines,
                           content |-> write_file(current_lines), ok |-> main_ok] >>
          /\ output' = [msg |-> IF main_ok THEN "Saved current state"
                                          ELSE "Error writing file:",
                        warning |-> ~bak_ok]

\* save: both writes are attempted, each either succeeds or raises
save ==
    /\ Remember
    /\ UNCHANGED <<snapshots, current_index, original, loaded>>
    /\ \E bak_ok \in BOOLEAN, main_ok \in BOOLEAN :
          /\ writes' = << [path |-> "path.bak", lines |-> original,
                           content |-> write_file(original), ok |-> bak_ok],
                          [path |-> "path", lines |-> current_lines,
                           content |-> write_file(current_lines), ok |-> main_ok] >>
          /\ output' = [msg |-> IF main_ok THEN "Saved current state"
                                          ELSE "Error writing file:",
                        warning |-> ~bak_ok]

play ==
    /\ Remember
    /\ UNCHANGED <<snapshots, current_index, original, loaded>>
    /\ writes' = <<>>
    /\ output' = [msg |-> "Play finished.",
                  shown |-> [i \in 1 .. Len(snapshots) |->
                               [index |-> i - 1, lines |-> snapshots[i].lines]]]

\* line numbers and snapshot indices typed by the user: every valid one,
\* and invalid ones on both sides of the valid range
LineArgs == -1 .. (Len(current_lines) + 1)
IndexArgs == -1 .. (Len(snapshots) + 1)

Next ==
    \/ \E n \in LineArgs, t \in ReplaceTexts : replace_line(n, t)
    \/ \E n \in LineArgs, t \in InsertTexts : insert_line(n, t)
    \/ \E n \in LineArgs : delete_line(n)
    \/ \E i \in IndexArgs : checkout(i)
    \/ \E i \in IndexArgs : preview_state(i)
    \/ timeline
    \/ play
    \/ save

Spec == Init /\ [][Next]_vars

----------------------------------------------------------------------------
(* Vocabulary of the properties *)

Edits == { "Replaced.", "Inserted.", "Deleted." }
OutOfRange == { "Line number out of range.", "Index out of range." }

Tip(snaps) == snaps[Len(snaps)]

LoadedSnapshot(lines) == [desc |-> [op |-> "Loaded original file"], lines |-> lines]
CheckoutSnapshot(k, lines) ==
    [desc |-> [op |-> "Checkout state", index |-> k], lines |-> lines]

----------------------------------------------------------------------------
\* C1: after construction and after every call, valid or rejected, snapshots
\* is non-empty and 0 <= current_index < len(snapshots).
C1_IndexValid ==
    /\ Len(snapshots) >= 1
    /\ 0 <= current_index
    /\ current_index < Len(snapshots)

\* a rejected checkout made on a timeline that a checkout had truncated
C1_Witness ==
    /\ output.msg = "Index out of range."
    /\ earlier.output.msg = "Checked out state"
    /\ earlier.output.index < earlier.current_index
    /\ C1_IndexValid

\* C2: snapshots[0] is always the snapshot pushed at construction, holding the
\* loaded content, and `original` still equals the loaded content.
C2_OriginalKept ==
    /\ Len(snapshots) >= 1
    /\ At(snapshots, 0) = LoadedSnapshot(loaded)
    /\ original = loaded

\* checkout(0) has just discarded two snapshots of a non-empty file
C2_Witness ==
    /\ output.msg = "Checked out state"
    /\ output.index = 0
    /\ Len(before.snapshots) = 3
    /\ loaded # <<>>
    /\ C2_OriginalKept

\* C3: after a successful checkout(k), snapshots 0..k are as before the call,
\* everything that was beyond k is gone, one snapshot with the lines of the
\* old snapshots[k] is appended, and current_index is the new last index.
C3_Checkout ==
    output.msg = "Checked out state" =>
        LET k == output.index IN
        /\ 0 <= k /\ k < Len(before.snapshots)
        /\ snapshots = Append(SubSeq(before.snapshots, 1, k + 1),
                              CheckoutSnapshot(k, At(before.snapshots, k).lines))
        /\ Len(snapshots) = k + 2
        /\ current_index = k + 1
        /\ output.head = current_index

\* a checkout of snapshot 1 that discarded snapshot 2
C3_Witness ==
    /\ output.msg = "Checked out state"
    /\ output.index = 1
    /\ Len(before.snapshots) = 3
    /\ At(before.snapshots, 2).lines # At(before.snapshots, 1).lines
    /\ C3_Checkout

\* an edit made right after a checkout of a point before the cursor
EditAfterCheckoutOfPast ==
    /\ output.msg = "Checked out state"
    /\ output.index < before.current_index
    /\ output'.msg \in Edits

\* C4 as stated: after checkout(k), k < current_index, and one edit, the
\* history has exactly k+2 snapshots.
C4_Original ==
    [][EditAfterCheckoutOfPast => Len(snapshots') = output.index + 2]_vars

\* C4 amended: after checkout(k), k < current_index, and one valid edit, the
\* history has exactly k+3 snapshots (indices 0..k+2): entries 0..k as before
\* the checkout, entry k+1 the checkout snapshot, entry k+2 the edit, and
\* nothing that was beyond k before the checkout.
C4_Amended ==
    [][EditAfterCheckoutOfPast =>
        LET k == output.index IN
        /\ Len(snapshots') = k + 3
        /\ SubSeq(snapshots', 1, k + 1) = SubSeq(before.snapshots, 1, k + 1)
        /\ At(snapshots', k + 1) =
               CheckoutSnapshot(k, At(before.snapshots, k).lines)
        /\ At(snapshots', k + 2).desc.op \in
               { "Replace line", "Insert at", "Delete line" }
        /\ current_index' = k + 2]_vars

\* an edit has just followed a checkout of a point before the cursor
C4_Witness ==
    /\ output.msg \in Edits
    /\ earlier.output.msg = "Checked out state"
    /\ earlier.output.index < earlier.current_index
    /\ Len(snapshots) = earlier.output.index + 3

(* The scenario of the specification: the file holds a, b, c *)

abc == << <<"a">>, <<"b">>, <<"c">> >>
aBc == << <<"a">>, <<"B">>, <<"c">> >>
ZaBc == << <<"Z">>, <<"a">>, <<"B">>, <<"c">> >>
bc == << <<"b">>, <<"c">> >>

ReplaceSnap ==
    [desc |-> [op |-> "Replace line", lineno |-> 1,
               old |-> <<"b">>, new_text |-> <<"B">>], lines |-> aBc]
InsertSnap ==
    [desc |-> [op |-> "Insert at", lineno |-> 0, new_text |-> <<"Z">>],
     lines |-> ZaBc]
DeleteSnap ==
    [desc |-> [op |-> "Delete line", lineno |-> 0, old |-> <<"a">>],
     lines |-> bc]

\* the timeline holds exactly these snapshots and the cursor is on the last
Holds(snaps) == snapshots = snaps /\ current_index = Len(snaps) - 1

Scenario0 == Holds(<< LoadedSnapshot(abc) >>)
Scenario1 == Holds(<< LoadedSnapshot(abc), ReplaceSnap >>)
Scenario2 == Holds(<< LoadedSnapshot(abc), ReplaceSnap, InsertSnap >>)

\* the states the specification's scenario names after checkout(0) and
\* after delete_line(0)
Stated3 ==
    Holds(<< LoadedSnapshot(abc), ReplaceSnap, InsertSnap,
             CheckoutSnapshot(0, abc) >>)
Stated4 ==
    Holds(<< LoadedSnapshot(abc), ReplaceSnap, InsertSnap,
             CheckoutSnapshot(0, abc), DeleteSnap >>)

\* the states the code is in after them
Scenario3 == Holds(<< LoadedSnapshot(abc), CheckoutSnapshot(0, abc) >>)
Scenario4 == Holds(<< LoadedSnapshot(abc), CheckoutSnapshot(0, abc), DeleteSnap >>)

ScenarioStart ==
    /\ (Scenario0 /\ replace_line(1, <<"B">>)) => Scenario1'
    /\ (Scenario1 /\ insert_line(0, <<"Z">>)) => Scenario2'

\* C5 as stated: replace_line(1,B) gives a,B,c in 2 snapshots, insert_line(0,Z)
\* gives Z,a,B,c in 3, checkout(0) gives a,b,c in 4 and delete_line(0) gives
\* b,c in 5, snapshots 0..4 all kept.
C5_Original ==
    [][/\ ScenarioStart
       /\ (Scenario2 /\ checkout(0)) => Stated3'
       /\ (Stated3 /\ delete_line(0)) => Stated4']_vars

\* C5 amended: replace_line(1,B) gives a,B,c in 2 snapshots, insert_line(0,Z)
\* gives Z,a,B,c in 3, checkout(0) gives a,b,c in 2 snapshots (the original
\* and the checkout snapshot; the replace and insert snapshots are
\* discarded) and delete_line(0) gives b,c in 3 snapshots.
C5_Amended ==
    [][/\ ScenarioStart
       /\ (Scenario2 /\ checkout(0)) => Scenario3'
       /\ (Scenario3 /\ delete_line(0)) => Scenario4']_vars

\* the end of the scenario, reached by its last two calls
C5_Witness ==
    /\ Scenario4
    /\ before = [snapshots |-> << LoadedSnapshot(abc), CheckoutSnapshot(0, abc) >>,
                 current_index |-> 1]
    /\ output.msg = "Deleted."
    /\ earlier.output.msg = "Checked out state"
    /\ earlier.current_index = 2

\* C6: a valid replace_line, insert_line or delete_line adds exactly one
\* snapshot, discards none, and leaves current_index on the new last one.
C6_EditAppends ==
    output.msg \in Edits =>
        /\ Len(snapshots) = Len(before.snapshots) + 1
        /\ SubSeq(snapshots, 1, Len(snapshots) - 1) = before.snapshots
        /\ current_index = Len(snapshots) - 1

\* a second edit in a row, made on the result of the first
C6_Witness ==
    /\ output.msg \in Edits
    /\ earlier.output.msg \in Edits
    /\ Len(snapshots) = 3
    /\ C6_EditAppends

\* some call with an argument outside its valid range is made
RejectedCall ==
    \/ \E n \in LineArgs, t \in ReplaceTexts :
          (n < 0 \/ n >= Len(current_lines)) /\ replace_line(n, t)
    \/ \E n \in LineArgs, t \in InsertTexts :
          (n < 0 \/ n > Len(current_lines)) /\ insert_line(n, t)
    \/ \E n \in LineArgs :
          (n < 0 \/ n >= Len(current_lines)) /\ delete_line(n)
    \/ \E i \in IndexArgs :
          (i < 0 \/ i >= Len(snapshots)) /\ checkout(i)

\* C7: a call with an out-of-range argument reports it and leaves snapshots
\* and current_index exactly as they were.
C7_RejectedChangesNothing ==
    [][RejectedCall =>
          /\ output'.msg \in OutOfRange
          /\ snapshots' = snapshots
          /\ current_index' = current_index]_vars

\* a rejected line edit on a timeline of three snapshots
C7_Witness ==
    /\ output.msg = "Line number out of range."
    /\ Len(snapshots) = 3
    /\ Timeline = before
    /\ current_lines # <<>>

\* C8: preview_state(i), in range or not, leaves snapshots and
\* current_index unchanged.
C8_PreviewReadOnly ==
    [][(\E i \in IndexArgs : preview_state(i)) =>
          /\ snapshots' = snapshots
          /\ current_index' = current_index]_vars

\* a preview of a snapshot before the cursor
C8_Witness ==
    /\ output.msg = "--- Preview state"
    /\ output.index < current_index
    /\ Timeline = before
    /\ output.lines # current_lines

\* delete_line(n) is made right after insert_line(n, X)
InsertThenDelete ==
    /\ output.msg = "Inserted."
    /\ output'.msg = "Deleted."
    /\ Tip(snapshots').desc.lineno = Tip(snapshots).desc.lineno

\* C9: insert_line(n, X) followed at once by delete_line(n) makes the current
\* lines equal to those before the insert, in a timeline two snapshots longer.
C9_InsertDelete ==
    [][InsertThenDelete =>
          /\ current_lines' = At(before.snapshots, before.current_index).lines
          /\ Len(snapshots') = Len(before.snapshots) + 2
          /\ SubSeq(snapshots', 1, Len(before.snapshots)) = before.snapshots
          /\ At(snapshots', Len(before.snapshots)).desc.op = "Insert at"
          /\ At(snapshots', Len(before.snapshots) + 1).desc.op = "Delete line"]_vars

\* a line inserted before the last line of a file has just been deleted again
C9_Witness ==
    /\ output.msg = "Deleted."
    /\ earlier.output.msg = "Inserted."
    /\ Len(snapshots) = 3
    /\ At(snapshots, 1).desc.op = "Insert at"
    /\ At(snapshots, 2).desc.lineno = At(snapshots, 1).desc.lineno
    /\ At(snapshots, 1).desc.lineno < Len(At(snapshots, 0).lines)
    /\ current_lines = At(snapshots, 0).lines
    /\ current_lines # <<>>

\* the effect of push_snapshot(lines, desc) called with the cursor at c
PushedAt(c, lines, desc) ==
    /\ snapshots' = Append(SubSeq(snapshots, 1, c + 1),
                           [desc |-> desc, lines |-> lines])
    /\ current_index' = c + 1
    /\ current_index' = Len(snapshots') - 1

\* C10: push_snapshot(lines, desc) called with the cursor at c keeps
\* snapshots 0..c, discards those beyond c, appends one snapshot holding
\* lines and desc at c+1 and makes c+1, the last index, current.
C10_PushSnapshot ==
    [][/\ \A i \in IndexArgs :
            (output'.msg = "Checked out state" /\ checkout(i)) =>
                PushedAt(i, At(snapshots, i).lines,
                         [op |-> "Checkout state", index |-> i])
       /\ \A n \in LineArgs, t \in ReplaceTexts :
            (output'.msg = "Replaced." /\ replace_line(n, t)) =>
                PushedAt(current_index, ListSet(current_lines, n, t),
                         [op |-> "Replace line", lineno |-> n,
                          old |-> At(current_lines, n), new_text |-> t])
       /\ \A n \in LineArgs, t \in InsertTexts :
            (output'.msg = "Inserted." /\ insert_line(n, t)) =>
                PushedAt(current_index, ListInsert(current_lines, n, t),
                         [op |-> "Insert at", lineno |-> n, new_text |-> t])
       /\ \A n \in LineArgs :
            (output'.msg = "Deleted." /\ delete_line(n)) =>
                PushedAt(current_index, ListPop(current_lines, n),
                         [op |-> "Delete line", lineno |-> n,
                          old |-> At(current_lines, n)])]_vars

\* a push made with the cursor on snapshot 0 of three
C10_Witness ==
    /\ output.msg = "Checked out state"
    /\ output.index = 0
    /\ before.current_index = 2
    /\ Len(snapshots) = 2
    /\ current_index = 1

\* the lines that were current when the last call began
LinesBefore == At(before.snapshots, before.current_index).lines

\* C12: a successful insert_line(n, t) on lines L, 0 <= n <= len(L), makes the
\* current lines one longer, with t at n, L[i] at i < n and L[i-1] at i > n.
C12_Insert ==
    output.msg = "Inserted." =>
        LET L == LinesBefore
            n == Tip(snapshots).desc.lineno
            t == Tip(snapshots).desc.new_text
            M == current_lines
        IN  /\ 0 <= n /\ n <= Len(L)
            /\ Len(M) = Len(L) + 1
            /\ At(M, n) = t
            /\ \A i \in 0 .. Len(L) :
                  /\ i < n => At(M, i) = At(L, i)
                  /\ i > n => At(M, i) = At(L, i - 1)

\* an insertion at the end of a non-empty file
C12_Witness ==
    /\ output.msg = "Inserted."
    /\ LinesBefore # <<>>
    /\ Tip(snapshots).desc.lineno = Len(LinesBefore)
    /\ At(current_lines, Len(LinesBefore)) = Tip(snapshots).desc.new_text

\* C13: a successful delete_line(n) on lines L, 0 <= n < len(L), makes the
\* current lines L without its element n, later lines one position up, and
\* the description of the pushed snapshot records L[n]; on empty current
\* lines every delete_line is rejected.
C13_Delete ==
    [][/\ output'.msg = "Deleted." =>
            LET L == current_lines
                n == Tip(snapshots').desc.lineno
                M == current_lines'
            IN  /\ 0 <= n /\ n < Len(L)
                /\ Len(M) = Len(L) - 1
                /\ \A i \in 0 .. Len(L) - 1 :
                      /\ i < n => At(M, i) = At(L, i)
                      /\ i > n => At(M, i - 1) = At(L, i)
                /\ Tip(snapshots').desc.old = At(L, n)
       /\ \A n \in LineArgs :
            (current_lines = <<>> /\ delete_line(n)) =>
                /\ output'.msg = "Line number out of range."
                /\ snapshots' = snapshots
                /\ current_index' = current_index]_vars

\* a deletion has emptied the file and the next line edit was rejected
C13_Witness ==
    /\ output.msg = "Line number out of range."
    /\ current_lines = <<>>
    /\ earlier.output.msg = "Deleted."
    /\ Tip(snapshots).desc.op = "Delete line"
    /\ Tip(snapshots).desc.old # <<>>

\* C14: a successful replace_line(n, t) on lines L, 0 <= n < len(L), makes the
\* current lines as long as L, equal to L everywhere but at n, where they
\* hold t, and the snapshot before the new one still holds L.
C14_Replace ==
    output.msg = "Replaced." =>
        LET L == LinesBefore
            n == Tip(snapshots).desc.lineno
            t == Tip(snapshots).desc.new_text
            M == current_lines
        IN  /\ 0 <= n /\ n < Len(L)
            /\ Len(M) = Len(L)
            /\ At(M, n) = t
            /\ \A i \in 0 .. Len(L) - 1 : i # n => At(M, i) = At(L, i)
            /\ Tip(snapshots).desc.old = At(L, n)
            /\ current_index >= 1
            /\ At(snapshots, current_index - 1).lines = L

\* a replacement that changed a line in the middle of the file
C14_Witness ==
    /\ output.msg = "Replaced."
    /\ Tip(snapshots).desc.lineno = 1
    /\ Len(current_lines) = 3
    /\ current_lines # LinesBefore
    /\ At(snapshots, current_index - 1).lines = LinesBefore

SaveMessages == { "Saved current state", "Error writing file:" }

\* C16: save attempts write_file(path + ".bak", original) and then
\* write_file(path, current_lines()), the second whatever became of the
\* first; a failed backup is reported by the warning, a failed main write by
\* the error message, and the timeline is as it was.
C16_Save ==
    output.msg \in SaveMessages =>
        /\ Len(writes) = 2
        /\ writes[1].path = "path.bak"
        /\ writes[1].lines = At(snapshots, 0).lines
        /\ writes[1].lines = loaded
        /\ writes[2].path = "path"
        /\ writes[2].lines = current_lines
        /\ output.warning = ~writes[1].ok
        /\ (output.msg = "Saved current state") = writes[2].ok
        /\ Timeline = before

\* the backup failed, the main write was made, after an edit
C16_Witness ==
    /\ output.msg = "Saved current state"
    /\ output.warning
    /\ ~writes[1].ok /\ writes[2].ok
    /\ writes[2].lines # writes[1].lines
    /\ Len(snapshots) = 3

\* the timeline extends the one the last call began with
ExtendsBefore ==
    /\ Len(snapshots) >= Len(before.snapshots)
    /\ SubSeq(snapshots, 1, Len(before.snapshots)) = before.snapshots

\* C20: between calls the cursor is on the last snapshot, and only a
\* checkout(k) with k below the tip removes snapshots.
C20_CursorAtTip ==
    /\ current_index = Len(snapshots) - 1
    /\ before.current_index = Len(before.snapshots) - 1
    /\ ~ExtendsBefore =>
          /\ output.msg = "Checked out state"
          /\ output.index < before.current_index

\* a checkout below the tip has removed a snapshot
C20_Witness ==
    /\ ~ExtendsBefore
    /\ output.msg = "Checked out state"
    /\ output.index = 1
    /\ current_index = Len(snapshots) - 1

----------------------------------------------------------------------------
(* write_file on its own: every sequence of up to MaxWriteLines lines of up *)
(* to MaxLineLen characters, newlines inside the lines included             *)

WriteChars == { "a", NL }

SeqsUpTo(S, n) == UNION { [1 .. k -> S] : k \in 0 .. n }

WriteArgs == SeqsUpTo(SeqsUpTo(WriteChars, MaxLineLen), MaxWriteLines)

write_file_call(lines) ==
    /\ Remember
    /\ UNCHANGED <<snapshots, current_index, original, loaded>>
    /\ writes' = << [path |-> "path", lines |-> lines,
                     content |-> write_file(lines), ok |-> TRUE] >>
    /\ output' = [msg |-> "write_file"]

NextWrite == \E lines \in WriteArgs : write_file_call(lines)

SpecWrite == Init /\ [][NextWrite]_vars

\* content ends with a newline that no other newline precedes
OneTrailingNewline(content) ==
    /\ content # <<>>
    /\ content[Len(content)] = NL
    /\ Len(content) >= 2 => content[Len(content) - 1] # NL

TwoTrailingNewlines(content) ==
    /\ Len(content) >= 2
    /\ content[Len(content)] = NL
    /\ content[Len(content) - 1] = NL

\* content is the lines joined by newline, or that and one more newline
JoinedLines(content, lines) ==
    content \in { join(lines), join(lines) \o <<NL>> }

\* the line ends in a character other than newline, or in such a character
\* and one newline
EndsProperly(line) ==
    /\ line # <<>>
    /\ \/ line[Len(line)] # NL
       \/ Len(line) >= 2 /\ line[Len(line) - 1] # NL

\* C17 as stated: whatever the lines, the written content is the lines
\* joined by newline and ends with exactly one trailing newline.
C17_Original ==
    output.msg = "write_file" =>
        /\ JoinedLines(writes[1].content, writes[1].lines)
        /\ OneTrailingNewline(writes[1].content)

\* C17 amended: the written content is the lines joined by newline, with one
\* more newline when the last line does not end in one; it ends with
\* exactly one trailing newline when the last line ends properly; the empty
\* sequence is written as an empty file, and two or more lines of which the
\* last is the empty string are written with two trailing newlines.
C17_Amended ==
    output.msg = "write_file" =>
        LET lines == writes[1].lines
            content == writes[1].content
            last == lines[Len(lines)]
        IN  /\ JoinedLines(content, lines)
            /\ lines = <<>> => content = <<>>
            /\ lines # <<>> => content[Len(content)] = NL
            /\ (lines # <<>> /\ EndsProperly(last)) => OneTrailingNewline(content)
            /\ (Len(lines) >= 2 /\ last = <<>>) => TwoTrailingNewlines(content)

\* two lines, the last of which already ends in a newline
C17_Witness ==
    /\ output.msg = "write_file"
    /\ writes[1].lines = << <<"a">>, <<"a", NL>> >>
    /\ writes[1].content = <<"a", NL, "a", NL>>

----------------------------------------------------------------------------
(* play step by step: the loop of play, one snapshot shown per step, a      *)
(* time.sleep after each, in which the user may interrupt the program       *)

Playing == "Playing timeline forward from 0 to tip:"
Interrupted == "KeyboardInterrupt"

\* no play is under way and the program has not been interrupted
AtPrompt == output.msg \notin { Playing, Interrupted }

\* print the header and evaluate range(len(self.snapshots))
play_begin ==
    /\ AtPrompt
    /\ Remember
    /\ UNCHANGED <<snapshots, current_index, original, loaded>>
    /\ writes' = <<>>
    /\ output' = [msg |-> Playing, steps |-> Len(snapshots), shown |-> <<>>]

\* a loop body that walks the snapshots from the last to the first
play_step_backwards ==
    /\ output.msg = Playing
    /\ Len(output.shown) < output.steps
    /\ UNCHANGED <<snapshots, current_index, original, loaded, writes,
                   before, earlier, heap, stored, held>>
    /\ LET i == output.steps - 1 - Len(output.shown) IN
       output' = [output EXCEPT !.shown =
                     Append(@, [index |-> i, lines |-> At(snapshots, i).lines])]

\* one pass of the loop body: show snapshot i, then sleep
play_step ==
    /\ output.msg = Playing
    /\ Len(output.shown) < output.steps
    /\ UNCHANGED <<snapshots, current_index, original, loaded, writes,
                   before, earlier, heap, stored, held>>
    /\ LET i == Len(output.shown) IN
       output' = [output EXCEPT !.shown =
                     Append(@, [index |-> i, lines |-> At(snapshots, i).lines])]

\* the range is exhausted
play_finish ==
    /\ output.msg = Playing
    /\ Len(output.shown) = output.steps
    /\ UNCHANGED <<snapshots, current_index, original, loaded, writes,
                   before, earlier, heap, stored, held>>
    /\ output' = [msg |-> "Play finished.", shown |-> output.shown]

\* the user interrupts a sleep: the exception is caught nowhere and the
\* program ends
play_interrupt ==
    /\ output.msg = Playing
    /\ Len(output.shown) >= 1
    /\ UNCHANGED <<snapshots, current_index, original, loaded, writes,
                   before, earlier, heap, stored, held>>
    /\ output' = [msg |-> Interrupted, shown |-> output.shown]

NextPlay ==
    \/ AtPrompt /\ \E n \in LineArgs, t \in ReplaceTexts : replace_line(n, t)
    \/ AtPrompt /\ \E n \in LineArgs, t \in InsertTexts : insert_line(n, t)
    \/ AtPrompt /\ \E n \in LineArgs : delete_line(n)
    \/ AtPrompt /\ \E i \in IndexArgs : checkout(i)
    \/ play_begin
    \/ play_step
    \/ play_finish
    \/ play_interrupt

SpecPlay == Init /\ [][NextPlay]_vars

\* the loop of play goes on unless the user interrupts it
SpecPlayFair == SpecPlay /\ WF_vars(play_step) /\ WF_vars(play_finish)

\* what play has shown so far is snapshots 0, 1, ... in this order, each once
ShownInOrder ==
    /\ Len(output.shown) <= Len(snapshots)
    /\ \A k \in 1 .. Len(output.shown) :
          output.shown[k] = [index |-> k - 1, lines |-> snapshots[k].lines]

PlaySafe ==
    /\ output.msg \in { Playing, Interrupted, "Play finished." } =>
          /\ ShownInOrder
          /\ Timeline = before
          /\ current_index = before.current_index
    /\ output.msg = Playing => output.steps = Len(snapshots)
    /\ output.msg = "Play finished." => Len(output.shown) = Len(snapshots)

\* C15: play shows every snapshot once, in increasing index order from 0 to
\* the last, leaves snapshots and current_index as they were at every
\* step, also when it is interrupted after a step, and unless interrupted
\* it finishes, after len(snapshots) steps.
C15_Play ==
    /\ []PlaySafe
    /\ (output.msg = Playing) ~> (output.msg \in { "Play finished.", Interrupted })

\* a play of three snapshots interrupted after the second
C15_Witness ==
    /\ output.msg = Interrupted
    /\ Len(output.shown) = 2
    /\ Len(snapshots) = 3
    /\ output.shown[2].lines # output.shown[1].lines

----------------------------------------------------------------------------
(* The list objects: which list a snapshot holds and which lists the caller *)
(* of current_lines and push_snapshot holds.  Under this specification      *)
(* snapshots[i].lines is the value that was pushed, heap[stored[i]] is the   *)
(* value the snapshot's list has now.                                       *)

\* the in-place changes the source makes to a list it got from
\* current_lines: lines[lineno] = new_text, lines.insert(lineno, new_text),
\* lines.pop(lineno), here with lineno = 0 and new_text = "X"
Mutations == { "assign", "insert", "pop" }

\* __init__: object 1 is self.original, object 2 the deep copy of it that
\* push_snapshot stored in snapshot 0
InitAlias ==
    /\ \E f \in InitFiles : Constructed(f)
    /\ heap = <<original, original>>
    /\ stored = <<2>>
    /\ held = <<>>

\* current_lines that returns the stored list itself
heap_current_lines_shared ==
    /\ Len(held) < MaxObjects - 2
    /\ History
    /\ held' = Append(held, At(stored, current_index))
    /\ UNCHANGED <<snapshots, current_index, original, loaded, stored, heap>>
    /\ writes' = <<>>
    /\ output' = [msg |-> "current_lines"]

\* current_lines(): copy.deepcopy makes a new list object, which the caller
\* then holds
heap_current_lines ==
    /\ Len(heap) < MaxObjects
    /\ History
    /\ heap' = Append(heap, heap[At(stored, current_index)])
    /\ held' = Append(held, Len(heap) + 1)
    /\ UNCHANGED <<snapshots, current_index, original, loaded, stored>>
    /\ writes' = <<>>
    /\ output' = [msg |-> "current_lines"]

\* push_snapshot that stores the caller's list itself
heap_push_snapshot_shared(k) ==
    LET lines == held[k]
        tl == push_snapshot(Timeline, heap[lines], [op |-> "edit"])
    IN
    /\ History
    /\ Becomes(tl)
    /\ stored' = Append(IF current_index < Len(stored) - 1
                        THEN Prefix(stored, current_index + 1)
                        ELSE stored, lines)
    /\ UNCHANGED <<original, loaded, held, heap>>
    /\ writes' = <<>>
    /\ output' = [msg |-> "push_snapshot"]

\* push_snapshot(lines) with lines the k-th list the caller holds:
\* copy.deepcopy makes a new list object, which the snapshot holds
heap_push_snapshot(k) ==
    LET lines == held[k]
        tl == push_snapshot(Timeline, heap[lines], [op |-> "edit"])
    IN
    /\ Len(heap) < MaxObjects
    /\ History
    /\ Becomes(tl)
    /\ heap' = Append(heap, heap[lines])
    /\ stored' = Append(IF current_index < Len(stored) - 1
                        THEN Prefix(stored, current_index + 1)
                        ELSE stored, Len(heap) + 1)
    /\ UNCHANGED <<original, loaded, held>>
    /\ writes' = <<>>
    /\ output' = [msg |-> "push_snapshot"]

\* the caller changes in place the k-th list it holds
caller_mutates(k, m) ==
    LET lines == held[k] IN
    /\ History
    /\ \/ /\ m = "assign"
          /\ heap[lines] # <<>>
          /\ heap' = [heap EXCEPT ![lines] = ListSet(@, 0, <<"X">>)]
       \/ /\ m = "insert"
          /\ Len(heap[lines]) < MaxListLen
          /\ heap' = [heap EXCEPT ![lines] = ListInsert(@, 0, <<"X">>)]
       \/ /\ m = "pop"
          /\ heap[lines] # <<>>
          /\ heap' = [heap EXCEPT ![lines] = ListPop(@, 0)]
    /\ UNCHANGED <<snapshots, current_index, original, loaded, stored, held>>
    /\ writes' = <<>>
    /\ output' = [msg |-> "mutated"]

NextAlias ==
    \/ heap_current_lines
    \/ \E k \in 1 .. Len(held) : heap_push_snapshot(k)
    \/ \E k \in 1 .. Len(held), m \in Mutations : caller_mutates(k, m)

SpecAlias == InitAlias /\ [][NextAlias]_vars

\* every stored snapshot's list holds the lines that were pushed
StoredAsPushed ==
    /\ Len(stored') = Len(snapshots')
    /\ \A i \in 1 .. Len(snapshots') : heap'[stored'[i]] = snapshots'[i].lines

\* no snapshot that stays in the history has its lines changed by the step
StoredKept ==
    \A i \in 1 .. Len(snapshots) :
        (i <= Len(snapshots') /\ stored'[i] = stored[i]) =>
            /\ heap'[stored[i]] = heap[stored[i]]
            /\ snapshots'[i] = snapshots[i]

\* C11: the list current_lines() returns and the list passed to
\* push_snapshot are independent of the stored history: whatever the caller
\* does to a list it holds, every stored snapshot keeps the lines that were
\* pushed; current_lines() returns a list equal to the lines of the current
\* snapshot, and changing one list the caller holds changes no other list
\* it holds.
C11_NoAliasing ==
    [][ /\ StoredAsPushed
        /\ StoredKept
        /\ (output'.msg = "current_lines" /\ heap_current_lines) =>
               heap'[held'[Len(held')]] = current_lines
        /\ \A k \in 1 .. Len(held) :
               (output'.msg = "mutated" /\ \E m \in Mutations : caller_mutates(k, m)) =>
                   \A j \in 1 .. Len(held) :
                       j # k => heap'[held[j]] = heap[held[j]] ]_vars

\* the caller got two lists from current_lines, changed the first, pushed
\* it, and changed it again: the two lists differ, snapshot 0 and the second
\* list hold the loaded lines, snapshot 1 the lines pushed
C11_Witness ==
    /\ heap # <<>>
    /\ output.msg = "mutated"
    /\ Len(snapshots) = 2
    /\ Len(held) = 2
    /\ snapshots[2].lines # snapshots[1].lines
    /\ heap[held[1]] # snapshots[2].lines
    /\ heap[held[2]] = snapshots[1].lines
    /\ heap[stored[1]] = loaded
    /\ heap[stored[2]] = snapshots[2].lines

----------------------------------------------------------------------------
(* The command loop: one action per line read at the "tt> " prompt, with    *)
(* the lines the command reads after it.  A command line, a token and a     *)
(* typed line are sequences of characters.                                  *)

\* the result of int(...): None when the conversion raises
None == [none |-> TRUE, n |-> 0]
Some(n) == [none |-> FALSE, n |-> n]

DigitChars == { "0", "1", "2", "3", "4", "5", "6", "7", "8", "9" }

DigitVal(c) ==
    CASE c = "0" -> 0 [] c = "1" -> 1 [] c = "2" -> 2 [] c = "3" -> 3
      [] c = "4" -> 4 [] c = "5" -> 5 [] c = "6" -> 6 [] c = "7" -> 7
      [] c = "8" -> 8 [] c = "9" -> 9

RECURSIVE lstrip(_)
lstrip(s) == IF s # <<>> /\ s[1] = " " THEN lstrip(Tail(s)) ELSE s

RECURSIVE rstrip(_)
rstrip(s) ==
    IF s # <<>> /\ s[Len(s)] = " " THEN rstrip(SubSeq(s, 1, Len(s) - 1)) ELSE s

\* str.strip() over the characters used here
strip(s) == rstrip(lstrip(s))

RECURSIVE DecimalValue(_)
DecimalValue(ds) ==
    IF ds = <<>> THEN 0
    ELSE 10 * DecimalValue(SubSeq(ds, 1, Len(ds) - 1)) + DigitVal(ds[Len(ds)])

\* int(s) for a string of digits, signs, spaces and letters: an optional
\* sign followed by one or more digits, spaces around them ignored
int(s) ==
    LET t == strip(s)
        signed == t # <<>> /\ t[1] \in { "-", "+" }
        ds == IF signed THEN Tail(t) ELSE t
    IN  IF ds = <<>> \/ \E k \in 1 .. Len(ds) : ds[k] \notin DigitChars
        THEN None
        ELSE Some(IF signed /\ t[1] = "-" THEN 0 - DecimalValue(ds)
                  ELSE DecimalValue(ds))

\* prompt_int(prompt) when the user types the line typed if asked: the
\* number in prompt, else the number in the line read with prompt shown as
\* the prompt, else None
prompt_int(prompt, typed) ==
    IF ~int(strip(prompt)).none THEN int(strip(prompt))
    ELSE int(strip(typed))

\* parts has no second element
Absent == <<>>

NumberCommands == { "p", "c", "r", "i", "d" }
PlainCommands == { "h", "s", "t", "play", "save", "q", "x" }

\* second words of a command line
IntTokens == { <<"0">>, <<"1">>, <<"-", "1">>, <<"7">> }
OtherTokens == { <<"x">>, <<"1", "x">> }

\* lines typed at the prompt prompt_int shows
TypedLines == { <<>>, <<"0">>, <<"1", " ">> }

\* lines typed at "New text (...): " and at "Delete line ...? (y/N): "
NewTexts(cmd) ==
    IF cmd = "r" THEN ReplaceTexts ELSE IF cmd = "i" THEN InsertTexts ELSE { <<>> }
Confirms(cmd) == IF cmd = "d" THEN { "y", "" } ELSE { "" }

Usage(cmd) ==
    CASE cmd = "p" -> "Usage: p <index>"
      [] cmd = "c" -> "Usage: c <index>"
      [] cmd = "r" -> "Usage: r <line_number>"
      [] cmd = "i" -> "Usage: i <line_number>"
      [] cmd = "d" -> "Usage: d <line_number)"

Invalid(cmd) ==
    IF cmd \in { "p", "c" } THEN "Invalid index." ELSE "Invalid line number."

\* a branch of the loop that only prints
say(msg) ==
    /\ output' = [msg |-> msg]
    /\ Remember
    /\ UNCHANGED <<snapshots, current_index, original, loaded>>
    /\ writes' = <<>>

show_current ==
    /\ Remember
    /\ UNCHANGED <<snapshots, current_index, original, loaded>>
    /\ writes' = <<>>
    /\ output' = [msg |-> "=== Current file state", index |-> current_index,
                  lines |-> current_lines]

\* the branch of command cmd after prompt_int returned n
with_number(cmd, n, newt, confirm) ==
    IF n.none THEN say(Invalid(cmd))
    ELSE \/ cmd = "p" /\ preview_state(n.n)
         \/ cmd = "c" /\ checkout(n.n)
         \/ cmd = "r" /\ replace_line(n.n, newt)
         \/ cmd = "i" /\ insert_line(n.n, newt)
         \/ cmd = "d" /\ confirm = "y" /\ delete_line(n.n)
         \/ cmd = "d" /\ confirm # "y" /\ say("Cancelled.")

\* a loop that asks for the number when the command line has none
no_argument_asks(cmd, typed, newt, confirm) ==
    with_number(cmd, int(typed), newt, confirm)

\* the branch len(parts) < 2 of the commands that take a number
no_argument(cmd, typed, newt, confirm) == say(Usage(cmd))

\* one pass of the loop of main_loop on a non-empty command line: cmd is
\* the first word in lower case, arg the rest of the line or Absent, and
\* typed, newt, confirm the lines typed at the prompts the command shows,
\* when it shows them
main_loop(cmd, arg, typed, newt, confirm) ==
    /\ output.msg # "Bye."
    /\ \/ cmd = "h" /\ say("Commands:")
       \/ cmd = "s" /\ show_current
       \/ cmd = "t" /\ timeline
       \/ cmd \in NumberCommands /\ arg = Absent
             /\ no_argument(cmd, typed, newt, confirm)
       \/ cmd \in NumberCommands /\ arg # Absent
             /\ with_number(cmd, prompt_int(arg, typed), newt, confirm)
       \/ cmd = "play" /\ play
       \/ cmd = "save" /\ save
       \/ cmd = "q" /\ say("Bye.")
       \/ cmd \notin NumberCommands \cup { "h", "s", "t", "play", "save", "q" }
             /\ say("Unknown command. Type 'h' for help.")

NextLoop ==
    \/ \E cmd \in PlainCommands : main_loop(cmd, Absent, <<>>, <<>>, "")
    \/ \E cmd \in NumberCommands, typed \in TypedLines :
          \E newt \in NewTexts(cmd), confirm \in Confirms(cmd) :
              main_loop(cmd, Absent, typed, newt, confirm)
    \/ \E cmd \in NumberCommands, arg \in IntTokens :
          \E newt \in NewTexts(cmd), confirm \in Confirms(cmd) :
              main_loop(cmd, arg, <<>>, newt, confirm)
    \/ \E cmd \in NumberCommands, arg \in OtherTokens, typed \in TypedLines :
          \E newt \in NewTexts(cmd), confirm \in Confirms(cmd) :
              main_loop(cmd, arg, typed, newt, confirm)

SpecLoop == Init /\ [][NextLoop]_vars

\* what a command prints when no operation of the editor was called
Rejections == { "Invalid index.", "Invalid line number." }
Usages == { Usage(cmd) : cmd \in NumberCommands }

\* C18: a command p, c, r, i or d whose index token is not an integer prints
\* "Invalid index." or "Invalid line number.", calls no operation of the
\* editor and leaves the timeline as it was.
C18_NonIntegerRejected ==
    [][ \A cmd \in NumberCommands, arg \in OtherTokens, typed \in TypedLines :
          \A newt \in NewTexts(cmd), confirm \in Confirms(cmd) :
              main_loop(cmd, arg, typed, newt, confirm) =>
                  /\ output'.msg \in Rejections
                  /\ Timeline' = Timeline ]_vars

\* the number a command r, i, d, p or c is performed with
Performed(cmd, n, newt, confirm) ==
    \/ cmd = "p" /\ preview_state(n)
    \/ cmd = "c" /\ checkout(n)
    \/ cmd = "r" /\ replace_line(n, newt)
    \/ cmd = "i" /\ insert_line(n, newt)
    \/ cmd = "d" /\ confirm = "y" /\ delete_line(n)
    \/ cmd = "d" /\ confirm # "y" /\ say("Cancelled.")

\* C19 as stated: a command p, c, r, i or d without its number reads the
\* number at a second prompt and performs the operation with it.
C19_Original ==
    [][ \A cmd \in NumberCommands, typed \in TypedLines :
          \A newt \in NewTexts(cmd), confirm \in Confirms(cmd) :
              (main_loop(cmd, Absent, typed, newt, confirm) /\ ~int(typed).none) =>
                  Performed(cmd, int(typed).n, newt, confirm) ]_vars

\* C19: a command p, c, r, i or d without its number prints the usage line
\* of the command, whatever is typed next; no operation of the editor is
\* performed, the timeline is unchanged and nothing is written.
C19_Amended ==
    [][ \A cmd \in NumberCommands, typed \in TypedLines :
          \A newt \in NewTexts(cmd), confirm \in Confirms(cmd) :
              main_loop(cmd, Absent, typed, newt, confirm) =>
                  /\ output'.msg = Usage(cmd)
                  /\ Timeline' = Timeline
                  /\ writes' = <<>> ]_vars

\* "c" alone typed after an edit: the usage line, the two snapshots as before
C19_Witness ==
    /\ output.msg = "Usage: c <index>"
    /\ Len(snapshots) = 2
    /\ Timeline = before
    /\ writes = <<>>

====
